---------------------------- MODULE Spec2Model ----------------------------
(***************************************************************************)
(* State-machine model of plugins/module_utils/btrfs.py: the filesystem    *)
(* registry (BtrfsFilesystemsProvider), the discovery pipeline             *)
(* (BtrfsInfoProvider / BtrfsCommands), and the per-filesystem mount table *)
(* and subvolume tree (BtrfsFilesystem / BtrfsSubvolume).                  *)
(*                                                                         *)
(* Strings the code inspects character by character (internal paths) are   *)
(* sequences of one-character strings.  Python's None is the empty         *)
(* sequence and a present value v is <<v>>.  Python list objects that are  *)
(* shared between several holders are modelled by a tagged reference, so   *)
(* that an append through one holder is seen by all of them.               *)
(***************************************************************************)
EXTENDS Naturals, Integers, Sequences, FiniteSets, TLC

VARIABLES
    filesystems,        \* BtrfsFilesystemsProvider.__filesystems (dict, insertion order)
    devicesDefault,     \* the list object of BtrfsFilesystem.__init__'s default devices=[]
    mountpointsDefault, \* the list object of BtrfsSubvolume.__init__'s default mountpoints=[]
    shown,              \* the lines the last 'btrfs filesystem show -d' returned
    showCalls,          \* number of 'btrfs filesystem show -d' invocations so far
    handle,             \* the filesystem the calling module works on (its uuid), or None
    lastOp              \* the last call made on the module and its outcome

vars == <<filesystems, devicesDefault, mountpointsDefault, shown, showCalls, handle, lastOp>>

---------------------------------------------------------------------------
(* Bounds of the model *)

MaxShowCalls == 2
MaxLines == 6
MaxMounts == 1
MaxRows == 1
MaxAttached == 2

---------------------------------------------------------------------------
(* Generic helpers *)

None == <<>>
Some(v) == <<v>>

Range(s) == {s[i] : i \in 1..Len(s)}

RECURSIVE SeqsUpTo(_, _)
SeqsUpTo(S, n) ==
    IF n = 0 THEN {<<>>}
    ELSE LET shorter == SeqsUpTo(S, n - 1)
         IN  shorter \cup {Append(s, x) : s \in {t \in shorter : Len(t) = n - 1}, x \in S}

Distinct(s) == \A i, j \in 1..Len(s) : i # j => s[i] # s[j]

StartsWith(s, p) == Len(p) <= Len(s) /\ SubSeq(s, 1, Len(p)) = p

Drop(s, n) == SubSeq(s, n + 1, Len(s))

---------------------------------------------------------------------------
(* Path strings *)

Sep == "/"
P_root == <<"/">>
P_data == <<"/", "d", "a", "t", "a">>
P_data_x == <<"/", "d", "a", "t", "a", "/", "x">>
P_mnt == <<"/", "m", "n", "t">>
P_srv == <<"/", "s", "r", "v">>
FS_TREE == <<"<", "F", "S", "_", "T", "R", "E", "E", ">">>

\* A string left with its runs of separators
NoCollapse(s) == s

\* re.sub(r"/+", "/", s)
RECURSIVE CollapseSeparators(_)
CollapseSeparators(s) ==
    IF Len(s) < 2 THEN s
    ELSE IF s[1] = Sep /\ s[2] = Sep THEN CollapseSeparators(Tail(s))
    ELSE <<s[1]>> \o CollapseSeparators(Tail(s))

\* re.sub(r"/+$", "", s)
RECURSIVE StripTrailingSeparators(_)
StripTrailingSeparators(s) ==
    IF s # <<>> /\ s[Len(s)] = Sep
    THEN StripTrailingSeparators(SubSeq(s, 1, Len(s) - 1))
    ELSE s

normalize_subvolume_path(path) ==
    LET fstree_stripped == IF StartsWith(path, FS_TREE) THEN Drop(path, Len(FS_TREE)) ELSE path
        result == StripTrailingSeparators(CollapseSeparators(<<Sep>> \o fstree_stripped))
    IN  IF Len(result) > 0 THEN result ELSE P_root


---------------------------------------------------------------------------
(* Outcome of a call: a returned value, a raised exception, or a call that
   never returns *)

Return(value) == [kind |-> "return", value |-> value]
Raise(exception) == [kind |-> exception, value |-> <<>>]
NeverReturns == [kind |-> "hang", value |-> <<>>]

---------------------------------------------------------------------------
(* Values *)

RootId == 5

\* BtrfsMountpoint: an immutable value object
Mountpoint(path, device, subvolume_id, subvolume_path) ==
    [path |-> path, device |-> device,
     subvolume_id |-> subvolume_id, subvolume_path |-> subvolume_path]

\* A reference to a Python list of mountpoints held by a BtrfsSubvolume:
\*   "default": the one list object of the constructor's default argument
\*   "table"  : the list object stored in the owning filesystem's mount table
\*              under the subvolume's id
\*   "own"    : a list object nobody else holds, with the given items
RefDefault == [kind |-> "default", items |-> <<>>]
RefTable == [kind |-> "table", items |-> <<>>]
RefOwn(items) == [kind |-> "own", items |-> items]

\* BtrfsSubvolume.__init__ (mountpoints left to its default)
BtrfsSubvolume(subvol_id, subvol_path, parent) ==
    [id |-> subvol_id, path |-> subvol_path, parent |-> parent, mountpoints |-> RefDefault]

mk_root_subvolume == BtrfsSubvolume(RootId, P_root, None)

---------------------------------------------------------------------------
(* Dictionaries in insertion order: sequences of entries with distinct keys *)

TableHas(table, id) == \E i \in 1..Len(table) : table[i].id = id

TableGet(table, id) == table[CHOOSE i \in 1..Len(table) : table[i].id = id].items

\* self.__mountpoints[subvolid].append(mp), creating the list when missing
TableAppend(table, mp) ==
    IF TableHas(table, mp.subvolume_id)
    THEN [i \in 1..Len(table) |->
            IF table[i].id = mp.subvolume_id
            THEN [table[i] EXCEPT !.items = Append(@, mp)]
            ELSE table[i]]
    ELSE Append(table, [id |-> mp.subvolume_id, items |-> <<mp>>])

\* d[key] = value for a dict of records keyed by field id
PutById(d, v) ==
    IF \E i \in 1..Len(d) : d[i].id = v.id
    THEN [i \in 1..Len(d) |-> IF d[i].id = v.id THEN v ELSE d[i]]
    ELSE Append(d, v)

\* d[key] = value for a dict of records keyed by field uuid
PutByUuid(d, v) ==
    IF \E i \in 1..Len(d) : d[i].uuid = v.uuid
    THEN [i \in 1..Len(d) |-> IF d[i].uuid = v.uuid THEN v ELSE d[i]]
    ELSE Append(d, v)

---------------------------------------------------------------------------
(* BtrfsFilesystem *)

\* BtrfsFilesystem.update_mountpoints: a new dict with new lists; a subvolume
\* whose _mountpoints was a list of the replaced dict keeps that old list.
RECURSIVE GroupMountpoints(_, _)
GroupMountpoints(table, mountpoints) ==
    IF mountpoints = <<>> THEN table
    ELSE GroupMountpoints(TableAppend(table, Head(mountpoints)), Tail(mountpoints))

update_mountpoints(fs, mountpoints) ==
    [fs EXCEPT
        !.mountpoints = GroupMountpoints(<<>>, mountpoints),
        !.subvolumes = [i \in 1..Len(fs.subvolumes) |->
            IF fs.subvolumes[i].mountpoints.kind = "table"
            THEN [fs.subvolumes[i] EXCEPT
                    !.mountpoints = RefOwn(TableGet(fs.mountpoints, fs.subvolumes[i].id))]
            ELSE fs.subvolumes[i]]]

\* BtrfsFilesystem.update_subvolumes
RECURSIVE InsertSubvolumes(_, _, _)
InsertSubvolumes(table, tree, subvolumes) ==
    IF subvolumes = <<>> THEN tree
    ELSE LET subvolume == Head(subvolumes)
             attached == IF TableHas(table, subvolume.id)
                         THEN [subvolume EXCEPT !.mountpoints = RefTable]
                         ELSE subvolume
         IN  InsertSubvolumes(table, PutById(tree, attached), Tail(subvolumes))

update_subvolumes(fs, subvolumes) ==
    [fs EXCEPT !.subvolumes = InsertSubvolumes(fs.mountpoints, <<>>, subvolumes)]

update_default_subvolume_id(fs, subvol_id) == [fs EXCEPT !.default_subvolid = subvol_id]

\* BtrfsFilesystem.__init__ as __parse_filesystem calls it: devices, mountpoints
\* and subvolumes are left to their defaults, so __devices is the default list.
BtrfsFilesystem(uuid, label) ==
    update_subvolumes(
        update_mountpoints(
            [uuid |-> uuid, label |-> label, default_subvolid |-> RootId,
             devices |-> "default", mountpoints |-> <<>>, subvolumes |-> <<>>],
            <<>>),
        <<>>)

\* BtrfsFilesystem.get_any_mountpoint
get_any_mountpoint(fs) ==
    IF \E i \in 1..Len(fs.mountpoints) : Len(fs.mountpoints[i].items) > 0
    THEN LET i == CHOOSE k \in 1..Len(fs.mountpoints) :
                    /\ Len(fs.mountpoints[k].items) > 0
                    /\ \A j \in 1..(k - 1) : Len(fs.mountpoints[j].items) = 0
         IN  Some(fs.mountpoints[i].items[1])
    ELSE None

\* BtrfsFilesystem.get_mountpoints_by_subvolume_id
get_mountpoints_by_subvolume_id(fs, subvolume_id) ==
    IF TableHas(fs.mountpoints, subvolume_id) THEN TableGet(fs.mountpoints, subvolume_id) ELSE <<>>

\* BtrfsFilesystem.get_subvolume_by_id
get_subvolume_by_id(fs, subvolume_id) ==
    IF \E i \in 1..Len(fs.subvolumes) : fs.subvolumes[i].id = subvolume_id
    THEN Some(fs.subvolumes[CHOOSE i \in 1..Len(fs.subvolumes) : fs.subvolumes[i].id = subvolume_id])
    ELSE None

---------------------------------------------------------------------------
(* BtrfsSubvolume and the resolution queries of BtrfsFilesystem *)

\* The list a subvolume's _mountpoints refers to
Mountpoints(fs, subvolume, defaultList) ==
    IF subvolume.mountpoints.kind = "default" THEN defaultList
    ELSE IF subvolume.mountpoints.kind = "table" THEN TableGet(fs.mountpoints, subvolume.id)
    ELSE subvolume.mountpoints.items

\* BtrfsSubvolume.is_mounted
is_mounted(fs, subvolume, defaultList) == Len(Mountpoints(fs, subvolume, defaultList)) > 0

\* BtrfsSubvolume.get_mountpoints
get_mountpoints(fs, subvolume) == get_mountpoints_by_subvolume_id(fs, subvolume.id)

\* get_mounted_path without the step to the parent
get_mounted_path_own_only(fs, subvolume) ==
    IF Len(get_mountpoints(fs, subvolume)) > 0 THEN Some(get_mountpoints(fs, subvolume)[1]) ELSE None

\* BtrfsSubvolume.get_mounted_path
RECURSIVE get_mounted_path(_, _)
get_mounted_path(fs, subvolume) ==
    LET mountpoints == get_mountpoints(fs, subvolume)
    IN  IF Len(mountpoints) > 0 THEN Some(mountpoints[1])
        ELSE IF subvolume.parent # None
        THEN LET parent == get_subvolume_by_id(fs, subvolume.parent[1])
             IN  IF parent # None THEN get_mounted_path(fs, parent[1]) ELSE None
        ELSE None

\* BtrfsSubvolume.get_parent_subvolume
get_parent_subvolume(fs, subvolume) ==
    IF subvolume.parent # None THEN get_subvolume_by_id(fs, subvolume.parent[1]) ELSE None

\* re.sub(r"^/*", "", s)
RECURSIVE StripLeadingSeparators(_)
StripLeadingSeparators(s) ==
    IF s # <<>> /\ Head(s) = Sep THEN StripLeadingSeparators(Tail(s)) ELSE s

\* BtrfsSubvolume.get_child_relative_path
get_child_relative_path(subvolume, absolute_child_path) ==
    IF StartsWith(absolute_child_path, subvolume.path)
    THEN Return(StripLeadingSeparators(Drop(absolute_child_path, Len(subvolume.path))))
    ELSE Raise("BtrfsModuleException")

\* re.sub(r"/[^/]+$", "", s): drops a last segment "/name"; a string that ends
\* with a separator or holds none is returned as it is
LastSeparator(s) == CHOOSE i \in 1..Len(s) : s[i] = Sep /\ \A j \in (i + 1)..Len(s) : s[j] # Sep

StripLastSegment(s) ==
    IF s # <<>> /\ s[Len(s)] # Sep /\ \E i \in 1..Len(s) : s[i] = Sep
    THEN SubSeq(s, 1, LastSeparator(s) - 1)
    ELSE s

\* BtrfsFilesystem.__get_subvolumes_by_path: s["path"] subscripts a
\* BtrfsSubvolume, which defines no __getitem__, so the first iteration of the
\* loop raises TypeError; with no subvolume the result is the empty dict.
get_subvolumes_by_path(fs) ==
    IF Len(fs.subvolumes) > 0 THEN Raise("TypeError") ELSE Return(<<>>)

\* BtrfsFilesystem.get_nearest_subvolume: the while loop.  BtrfsSubvolume(self, id)
\* omits the required subvol_path and parent arguments and raises TypeError.
RECURSIVE nearest_subvolume_loop(_, _)
nearest_subvolume_loop(subvolumes_by_path, subvolume) ==
    IF Len(subvolume) > 1
    THEN IF \E i \in 1..Len(subvolumes_by_path) : subvolumes_by_path[i].path = subvolume
         THEN Raise("TypeError")
         ELSE IF StripLastSegment(subvolume) = subvolume THEN NeverReturns
         ELSE nearest_subvolume_loop(subvolumes_by_path, StripLastSegment(subvolume))
    ELSE Raise("TypeError")

get_nearest_subvolume(fs, subvolume) ==
    LET subvolumes_by_path == get_subvolumes_by_path(fs)
    IN  IF subvolumes_by_path.kind # "return" THEN subvolumes_by_path
        ELSE nearest_subvolume_loop(subvolumes_by_path.value, subvolume)

\* BtrfsFilesystem.get_mountpath_as_child.  nearest.get_mounted_path() is a
\* BtrfsMountpoint, which defines no __add__: adding os.path.sep raises TypeError.
get_mountpath_as_child(fs, subvolume_name) ==
    LET found == get_nearest_subvolume(fs, subvolume_name)
    IN  IF found.kind # "return" THEN found
        ELSE LET nearest == IF found.value.path = subvolume_name
                            THEN get_parent_subvolume(fs, found.value)
                            ELSE Some(found.value)
             IN  IF nearest = None \/ get_mounted_path(fs, nearest[1]) = None
                 THEN Raise("BtrfsModuleException")
                 ELSE Raise("TypeError")

---------------------------------------------------------------------------
(* What the command gateway may return *)

DevSda == "/dev/sda"
DevSdb == "/dev/sdb"
DevSdc == "/dev/sdc"
LinkData == "/dev/mapper/data"

\* os.path.realpath on a host where /dev/mapper/data is a symlink to /dev/sda
realpath(device) == IF device = LinkData THEN DevSda ELSE device

L_DATA == <<"'", "D", "A", "T", "A", "'">>
L_none == <<"n", "o", "n", "e">>

\* Lines of 'btrfs filesystem show -d' after x.strip(): "Label: ... uuid: ...",
\* "devid ... path ...", and anything else ("Total devices ...", blank lines)
LabelLine(label, uuid) == [kind |-> "Label", label |-> label, uuid |-> uuid, path |-> ""]
DevidLine(path) == [kind |-> "devid", label |-> <<>>, uuid |-> "", path |-> path]
OtherLine == [kind |-> "other", label |-> <<>>, uuid |-> "", path |-> ""]

\* Hosts with no, one and two btrfs filesystems, and one with a second device
ShowHosts ==
    { <<>>,
      <<LabelLine(L_DATA, "u1"), OtherLine, DevidLine(DevSda)>>,
      <<LabelLine(L_DATA, "u1"), OtherLine, DevidLine(DevSda),
        LabelLine(L_none, "u2"), OtherLine, DevidLine(DevSdb)>>,
      <<LabelLine(L_DATA, "u1"), OtherLine, DevidLine(DevSda),
        LabelLine(L_none, "u2"), OtherLine, DevidLine(DevSdb), DevidLine(DevSdc)>> }

ShowOutputs == {lines \in ShowHosts : Len(lines) <= MaxLines}

\* Parsed lines of 'findmnt -t btrfs -nvP'
MountUniverse ==
    { Mountpoint(P_mnt, DevSda, RootId, P_root),
      Mountpoint(P_srv, DevSda, 10, P_data),
      Mountpoint(P_srv, DevSdb, RootId, P_root) }

MountPaths == {mp.path : mp \in MountUniverse}

MountOutputs == {s \in SeqsUpTo(MountUniverse, MaxMounts) : Distinct(s)}

\* Rows of 'btrfs subvolume list -tap' after its two header lines:
\* column 0 (id), column 2 (parent id), column 5 (path)
Row(id, parent, path) == [id |-> id, parent |-> parent, path |-> path]

RowUniverse ==
    { Row(10, RootId, FS_TREE \o P_data),
      Row(11, 10, FS_TREE \o P_data_x) }

SubvolOutputs == {s \in SeqsUpTo(RowUniverse, MaxRows) : Distinct(s)}

\* 'btrfs subvolume get-default': "ID <n> ..."
DefaultOutputs == {RootId, 10}

---------------------------------------------------------------------------
(* BtrfsCommands: the parsers *)

\* label.strip("'")
RECURSIVE StripQuotes(_)
StripQuotes(label) ==
    IF label # <<>> /\ Head(label) = "'" THEN StripQuotes(Tail(label))
    ELSE IF label # <<>> /\ label[Len(label)] = "'"
         THEN StripQuotes(SubSeq(label, 1, Len(label) - 1))
    ELSE label

\* BtrfsCommands.__parse_filesystem
parse_filesystem(line) ==
    BtrfsFilesystem(line.uuid, IF line.label # L_none THEN Some(StripQuotes(line.label)) ELSE None)

\* BtrfsCommands.__parse_filesystem_device
parse_filesystem_device(line) == line.path

\* BtrfsCommands.filesystem_show: the loop over the lines.  current.devices is
\* the default list object for every filesystem, so each append lands in it.
RECURSIVE filesystem_show(_, _, _, _)
filesystem_show(lines, parsed, hasCurrent, devices) ==
    IF lines = <<>> THEN [filesystems |-> parsed, devices |-> devices]
    ELSE LET line == Head(lines)
         IN  IF line.kind = "Label"
             THEN filesystem_show(Tail(lines), Append(parsed, parse_filesystem(line)), TRUE, devices)
             ELSE IF line.kind = "devid" /\ hasCurrent
             THEN filesystem_show(Tail(lines), parsed, hasCurrent,
                                  Append(devices, parse_filesystem_device(line)))
             ELSE filesystem_show(Tail(lines), parsed, hasCurrent, devices)

\* BtrfsCommands.__parse_subvolume_list_record
parse_subvolume_list_record(row) ==
    BtrfsSubvolume(row.id, normalize_subvolume_path(row.path), Some(row.parent))

\* BtrfsCommands.subvolumes_list, called with a filesystem that has a mountpoint
subvolumes_list(rows) ==
    <<mk_root_subvolume>> \o [i \in 1..Len(rows) |-> parse_subvolume_list_record(rows[i])]

---------------------------------------------------------------------------
(* BtrfsInfoProvider *)

\* BtrfsInfoProvider.__filter_mountpoints_for_devices
filter_mountpoints_for_devices(mountpoints, devices) ==
    LET keep(mp) == mp.device \in Range(devices) IN SelectSeq(mountpoints, keep)

\* BtrfsInfoProvider.get_filesystems: the loop body for one filesystem.  The
\* subvolume listing is queried through filesystem.mountpoint.path and the
\* default subvolume through device_mountpoints[0].path; rowsAt and defaultAt
\* are the gateway's answers by path.
discover_filesystem(fs, devices, mountpoints, rowsAt, defaultAt) ==
    LET device_mountpoints == filter_mountpoints_for_devices(mountpoints, devices)
        mounted == update_mountpoints(fs, device_mountpoints)
    IN  IF Len(device_mountpoints) > 0
        THEN update_default_subvolume_id(
                update_subvolumes(mounted,
                    subvolumes_list(rowsAt[mounted.mountpoints[1].items[1].path])),
                defaultAt[device_mountpoints[1].path])
        ELSE mounted

\* BtrfsInfoProvider.get_filesystems
get_filesystems(lines, devices0, mountpoints, rowsAt, defaultAt) ==
    LET show == filesystem_show(lines, <<>>, FALSE, devices0)
    IN  [filesystems |-> [i \in 1..Len(show.filesystems) |->
                            discover_filesystem(show.filesystems[i], show.devices,
                                                mountpoints, rowsAt, defaultAt)],
         devices |-> show.devices]

---------------------------------------------------------------------------
(* BtrfsFilesystemsProvider: the registry *)

\* BtrfsFilesystem.contains_device; devices is the list fs.devices refers to
contains_device(fs, devices, device) == device \in Range(devices)

\* BtrfsFilesystemsProvider.__filesystem_matches_criteria
filesystem_matches_criteria(fs, devices, criteria) ==
    /\ (criteria.uuid = None \/ Some(fs.uuid) = criteria.uuid)
    /\ (criteria.label = None \/ fs.label = criteria.label)
    /\ (criteria.device = None \/ contains_device(fs, devices, criteria.device[1]))

\* for fs in ...: self.__filesystems[fs.uuid] = fs
RECURSIVE RegisterAll(_, _)
RegisterAll(registry, found) ==
    IF found = <<>> THEN registry
    ELSE RegisterAll(PutByUuid(registry, Head(found)), Tail(found))

\* BtrfsFilesystemsProvider.__check_init: the states it can leave the registry
\* in.  A registry holding no filesystem runs the discovery pipeline.
check_init ==
    IF Len(filesystems) # 0
    THEN {[filesystems |-> filesystems, devices |-> devicesDefault,
           shown |-> shown, showCalls |-> showCalls]}
    ELSE IF showCalls >= MaxShowCalls THEN {}
    ELSE {LET found == get_filesystems(lines, devicesDefault, mountpoints, rowsAt, defaultAt)
          IN  [filesystems |-> RegisterAll(filesystems, found.filesystems),
               devices |-> found.devices,
               shown |-> lines, showCalls |-> showCalls + 1] :
            lines \in ShowOutputs, mountpoints \in MountOutputs,
            rowsAt \in [MountPaths -> SubvolOutputs], defaultAt \in [MountPaths -> DefaultOutputs]}

CriteriaInputs ==
    [uuid : {None, Some("u1"), Some("u2")},
     label : {None, Some(<<"D", "A", "T", "A">>)},
     device : {None, Some(LinkData), Some(DevSdb)}]

DeviceInputs == {LinkData, DevSdb, DevSdc}

Hung == lastOp.op # "init" /\ lastOp.result.kind = "hang"

\* BtrfsFilesystemsProvider.get_any_matching_filesystem, after __check_init
any_matching_filesystem(registry, devices, criteria) ==
    LET resolved == IF criteria.device # None
                    THEN [criteria EXCEPT !.device = Some(realpath(criteria.device[1]))]
                    ELSE criteria
        matches(fs) == filesystem_matches_criteria(fs, devices, resolved)
        matching == SelectSeq(registry, matches)
    IN  IF Len(matching) = 1 THEN Return(matching[1].uuid)
        ELSE Raise("BtrfsModuleException")

\* BtrfsFilesystemsProvider.get_filesystem_for_device, after __check_init
filesystem_for_device(registry, devices, device) ==
    LET real_device == realpath(device)
        holds(fs) == contains_device(fs, devices, real_device)
        holding == SelectSeq(registry, holds)
    IN  IF Len(holding) > 0 THEN Return(Some(holding[1].uuid)) ELSE Return(None)

Init ==
    /\ filesystems = <<>>
    /\ devicesDefault = <<>>
    /\ mountpointsDefault = <<>>
    /\ shown = <<>>
    /\ showCalls = 0
    /\ handle = None
    /\ lastOp = [op |-> "init"]

Loaded(st) ==
    /\ filesystems' = st.filesystems
    /\ devicesDefault' = st.devices
    /\ shown' = st.shown
    /\ showCalls' = st.showCalls

GetAnyMatchingFilesystem ==
    /\ ~Hung
    /\ \E criteria \in CriteriaInputs, st \in check_init :
        /\ Loaded(st)
        /\ LET result == any_matching_filesystem(st.filesystems, st.devices, criteria)
           IN  /\ lastOp' = [op |-> "get_any_matching_filesystem", criteria |-> criteria,
                             result |-> result]
               /\ handle' = IF handle = None /\ result.kind = "return"
                            THEN Some(result.value) ELSE handle
    /\ UNCHANGED mountpointsDefault

GetFilesystemForDevice ==
    /\ ~Hung
    /\ \E device \in DeviceInputs, st \in check_init :
        /\ Loaded(st)
        /\ LET result == filesystem_for_device(st.filesystems, st.devices, device)
           IN  /\ lastOp' = [op |-> "get_filesystem_for_device", device |-> device,
                             result |-> result]
               /\ handle' = IF handle = None THEN result.value ELSE handle
    /\ UNCHANGED mountpointsDefault

GetFilesystems ==
    /\ ~Hung
    /\ \E st \in check_init :
        /\ Loaded(st)
        /\ lastOp' = [op |-> "get_filesystems",
                      result |-> Return([i \in 1..Len(st.filesystems) |-> st.filesystems[i].uuid])]
    /\ UNCHANGED <<mountpointsDefault, handle>>

NextRegistry == GetAnyMatchingFilesystem \/ GetFilesystemForDevice \/ GetFilesystems

SpecRegistry == Init /\ [][NextRegistry]_vars

---------------------------------------------------------------------------
(* Calls on a BtrfsFilesystem and its subvolumes *)

PathInputs == {P_root, P_data, P_data_x, <<"d", "a", "t", "a">>, <<"/", "d", "a", "t", "a", "/">>}

\* A refresh in progress: the filesystem and the gateway commands issued so far
\* BtrfsFilesystem.refresh_mountpoints
refresh_mountpoints(ctx, devices, found) ==
    [fs |-> update_mountpoints(ctx.fs, filter_mountpoints_for_devices(found, devices)),
     issued |-> ctx.issued \cup {"findmnt"}]

\* BtrfsFilesystem.refresh_subvolumes
refresh_subvolumes(ctx, rows) ==
    IF get_any_mountpoint(ctx.fs) # None
    THEN [fs |-> update_subvolumes(ctx.fs, subvolumes_list(rows)),
          issued |-> ctx.issued \cup {"subvolume list"}]
    ELSE ctx

\* BtrfsFilesystem.refresh_default_subvolume
refresh_default_subvolume(ctx, default) ==
    IF get_any_mountpoint(ctx.fs) # None
    THEN [fs |-> [ctx.fs EXCEPT !.default_subvolid = default],
          issued |-> ctx.issued \cup {"subvolume get-default"}]
    ELSE ctx

\* BtrfsFilesystem.refresh
refresh(ctx, devices, found, rows, default) ==
    refresh_default_subvolume(
        refresh_subvolumes(refresh_mountpoints(ctx, devices, found), rows), default)

Called(fs) == [fs |-> fs, issued |-> {}]

\* The calling module keeps the filesystem its first successful lookup returned
\* and makes its filesystem calls on that object: its place in the registry
Working == {i \in 1..Len(filesystems) : Some(filesystems[i].uuid) = handle}

Store(i, fs) == filesystems' = [filesystems EXCEPT ![i] = fs]

Refresh ==
    /\ ~Hung
    /\ \E i \in Working, found \in MountOutputs,
          rows \in SubvolOutputs, default \in DefaultOutputs :
        LET done == refresh(Called(filesystems[i]), devicesDefault, found, rows, default)
        IN  /\ Store(i, done.fs)
            /\ lastOp' = [op |-> "refresh", fs |-> filesystems[i].uuid, found |-> found,
                          issued |-> done.issued, result |-> Return(None)]
    /\ UNCHANGED <<devicesDefault, mountpointsDefault, shown, showCalls, handle>>

RefreshMountpoints ==
    /\ ~Hung
    /\ \E i \in Working, found \in MountOutputs :
        LET done == refresh_mountpoints(Called(filesystems[i]), devicesDefault, found)
        IN  /\ Store(i, done.fs)
            /\ lastOp' = [op |-> "refresh_mountpoints", fs |-> filesystems[i].uuid,
                          found |-> found, issued |-> done.issued, result |-> Return(None)]
    /\ UNCHANGED <<devicesDefault, mountpointsDefault, shown, showCalls, handle>>

RefreshSubvolumes ==
    /\ ~Hung
    /\ \E i \in Working, rows \in SubvolOutputs :
        LET done == refresh_subvolumes(Called(filesystems[i]), rows)
        IN  /\ Store(i, done.fs)
            /\ lastOp' = [op |-> "refresh_subvolumes", fs |-> filesystems[i].uuid,
                          issued |-> done.issued, result |-> Return(None)]
    /\ UNCHANGED <<devicesDefault, mountpointsDefault, shown, showCalls, handle>>

RefreshDefaultSubvolume ==
    /\ ~Hung
    /\ \E i \in Working, default \in DefaultOutputs :
        LET done == refresh_default_subvolume(Called(filesystems[i]), default)
        IN  /\ Store(i, done.fs)
            /\ lastOp' = [op |-> "refresh_default_subvolume", fs |-> filesystems[i].uuid,
                          issued |-> done.issued, result |-> Return(None)]
    /\ UNCHANGED <<devicesDefault, mountpointsDefault, shown, showCalls, handle>>

\* self.__mountpoints[id].append(mp) through a subvolume that holds that list
TableAppendTo(table, id, mp) ==
    [i \in 1..Len(table) |->
        IF table[i].id = id THEN [table[i] EXCEPT !.items = Append(@, mp)] ELSE table[i]]

AttachInputs ==
    { Mountpoint(P_mnt, DevSda, RootId, P_root),
      Mountpoint(P_srv, DevSdb, RootId, P_root) }

\* BtrfsSubvolume.add_mountpoint on the j-th subvolume of the i-th filesystem.
\* "mountpoint not in self._mountpoints" compares object identities
\* (BtrfsMountpoint defines no __eq__): held says whether the object passed is
\* one of the list's own elements.
AddMountpoint ==
    /\ ~Hung
    /\ \E i \in Working, mountpoint \in AttachInputs, held \in BOOLEAN :
        \E j \in 1..Len(filesystems[i].subvolumes) :
            LET fs == filesystems[i]
                subvolume == fs.subvolumes[j]
                list == Mountpoints(fs, subvolume, mountpointsDefault)
            IN  /\ held => mountpoint \in Range(list)
                /\ ~held => Len(list) < MaxAttached
                /\ IF held
                   THEN UNCHANGED <<filesystems, mountpointsDefault>>
                   ELSE IF subvolume.mountpoints.kind = "default"
                   THEN /\ mountpointsDefault' = Append(mountpointsDefault, mountpoint)
                        /\ UNCHANGED filesystems
                   ELSE IF subvolume.mountpoints.kind = "table"
                   THEN /\ Store(i, [fs EXCEPT !.mountpoints =
                                        TableAppendTo(@, subvolume.id, mountpoint)])
                        /\ UNCHANGED mountpointsDefault
                   ELSE /\ Store(i, [fs EXCEPT !.subvolumes[j].mountpoints.items =
                                        Append(@, mountpoint)])
                        /\ UNCHANGED mountpointsDefault
                /\ lastOp' = [op |-> "add_mountpoint", fs |-> fs.uuid, id |-> subvolume.id,
                              mountpoint |-> mountpoint, result |-> Return(None)]
    /\ UNCHANGED <<devicesDefault, shown, showCalls, handle>>

\* BtrfsSubvolume.remove_mountpoint: rebinds _mountpoints to a new list
RemoveMountpoint ==
    /\ ~Hung
    /\ \E i \in Working, mountpoint \in AttachInputs :
        \E j \in 1..Len(filesystems[i].subvolumes) :
            LET fs == filesystems[i]
                subvolume == fs.subvolumes[j]
                keep(mp) == mp.subvolume_id # mountpoint.subvolume_id
                kept == SelectSeq(Mountpoints(fs, subvolume, mountpointsDefault), keep)
            IN  /\ Store(i, [fs EXCEPT !.subvolumes[j].mountpoints = RefOwn(kept)])
                /\ lastOp' = [op |-> "remove_mountpoint", fs |-> fs.uuid, id |-> subvolume.id,
                              mountpoint |-> mountpoint, result |-> Return(None)]
    /\ UNCHANGED <<devicesDefault, mountpointsDefault, shown, showCalls, handle>>

GetNearestSubvolume ==
    /\ ~Hung
    /\ \E i \in Working, path \in PathInputs :
        lastOp' = [op |-> "get_nearest_subvolume", fs |-> filesystems[i].uuid, path |-> path,
                   result |-> get_nearest_subvolume(filesystems[i], path)]
    /\ UNCHANGED <<filesystems, devicesDefault, mountpointsDefault, shown, showCalls, handle>>

GetMountpathAsChild ==
    /\ ~Hung
    /\ \E i \in Working, path \in PathInputs :
        lastOp' = [op |-> "get_mountpath_as_child", fs |-> filesystems[i].uuid, path |-> path,
                   result |-> get_mountpath_as_child(filesystems[i], path)]
    /\ UNCHANGED <<filesystems, devicesDefault, mountpointsDefault, shown, showCalls, handle>>

\* The calling module looks its filesystem up first and then works on it
Next ==
    \/ handle = None /\ GetAnyMatchingFilesystem
    \/ handle = None /\ GetFilesystemForDevice
    \/ handle = None /\ GetFilesystems
    \/ Refresh
    \/ RefreshMountpoints
    \/ RefreshSubvolumes
    \/ RefreshDefaultSubvolume
    \/ GetNearestSubvolume
    \/ GetMountpathAsChild

Spec == Init /\ [][Next]_vars

\* The calls that change what a subvolume's mountpoints list holds
NextMountpoints ==
    \/ handle = None /\ GetFilesystemForDevice
    \/ RefreshSubvolumes
    \/ AddMountpoint
    \/ RemoveMountpoint

SpecMountpoints == Init /\ [][NextMountpoints]_vars

---------------------------------------------------------------------------
(* What the claims speak about *)

\* The filesystem a registry holds under a uuid
FsOf(registry, uuid) == registry[CHOOSE i \in 1..Len(registry) : registry[i].uuid = uuid]

\* The list a filesystem's __devices refers to
Devices(fs) == IF fs.devices = "default" THEN devicesDefault ELSE <<>>

\* The device lines that follow the header of uuid in a listing, up to the next header
ListedDevices(lines, uuid) ==
    {lines[j].path : j \in {k \in 1..Len(lines) :
        /\ lines[k].kind = "devid"
        /\ \E i \in 1..(k - 1) :
            /\ lines[i].kind = "Label"
            /\ lines[i].uuid = uuid
            /\ \A m \in (i + 1)..(k - 1) : lines[m].kind # "Label"}}

\* The internal paths of which path is a descendant: path itself with its last
\* segments taken away one by one
RECURSIVE AncestorPaths(_)
AncestorPaths(path) ==
    IF Len(path) <= 1 \/ StripLastSegment(path) = path THEN {}
    ELSE {StripLastSegment(path)} \cup AncestorPaths(StripLastSegment(path))

\* The subvolume a path resolves to: the one at the path, else the one at the
\* closest ancestor path, else the root
NearestIn(fs, path) ==
    LET candidates == {i \in 1..Len(fs.subvolumes) :
                          fs.subvolumes[i].path \in ({path} \cup AncestorPaths(path))}
    IN  IF candidates = {} THEN mk_root_subvolume
        ELSE fs.subvolumes[CHOOSE i \in candidates :
                \A j \in candidates : Len(fs.subvolumes[j].path) <= Len(fs.subvolumes[i].path)]

IsSubvolumePath(fs, path) == \E i \in 1..Len(fs.subvolumes) : fs.subvolumes[i].path = path

\* C1: get_mountpath_as_child(p), for p that is no subvolume's path and whose
\* nearest subvolume is unmounted but has a mounted ancestor A, returns A's
\* mount path, a separator, and p relative to A's internal path ("/mnt/data/x"
\* for "/data/x" with the root mounted at "/mnt" and subvolume 10 at "/data").
C1_Case(fs, path) ==
    /\ ~IsSubvolumePath(fs, path)
    /\ IsSubvolumePath(fs, NearestIn(fs, path).path)
    /\ get_mountpoints(fs, NearestIn(fs, path)) = <<>>
    /\ get_mounted_path(fs, NearestIn(fs, path)) # None
    /\ get_subvolume_by_id(fs, get_mounted_path(fs, NearestIn(fs, path))[1].subvolume_id) # None

C1_Expected(fs, path) ==
    LET mountpoint == get_mounted_path(fs, NearestIn(fs, path))[1]
        ancestor == get_subvolume_by_id(fs, mountpoint.subvolume_id)[1]
    IN  mountpoint.path \o <<Sep>> \o StripLeadingSeparators(Drop(path, Len(ancestor.path)))

C1_MountPathThroughAncestor ==
    (lastOp.op = "get_mountpath_as_child" /\ C1_Case(FsOf(filesystems, lastOp.fs), lastOp.path))
        => lastOp.result = Return(C1_Expected(FsOf(filesystems, lastOp.fs), lastOp.path))

\* C2: get_nearest_subvolume returns, for every non-empty path and every tree,
\* the subvolume at the path, else the one at the closest ancestor path, else
\* the root; it always terminates and never fails.
C2_NearestSubvolumeTotal ==
    lastOp.op = "get_nearest_subvolume"
        => /\ lastOp.result.kind = "return"
           /\ lastOp.result.value.id = NearestIn(FsOf(filesystems, lastOp.fs), lastOp.path).id

\* C3: once update_subvolumes and update_mountpoints have both been applied (in
\* either order), the list read through each subvolume's mountpoints attribute
\* equals the mount table's entry for the subvolume's id.
C3_MountpointsFollowTable ==
    \A i \in 1..Len(filesystems) : \A j \in 1..Len(filesystems[i].subvolumes) :
        LET fs == filesystems[i]
            subvolume == fs.subvolumes[j]
        IN  /\ Mountpoints(fs, subvolume, mountpointsDefault)
                  = get_mountpoints_by_subvolume_id(fs, subvolume.id)
            /\ is_mounted(fs, subvolume, mountpointsDefault)
                  = (Len(get_mountpoints_by_subvolume_id(fs, subvolume.id)) > 0)

\* The filesystems of the registry that meet every supplied criterion: uuid
\* and label as parsed, the device (canonical path) among the filesystem's own
\* device lines
Matching(criteria) ==
    {filesystems[i].uuid : i \in {k \in 1..Len(filesystems) :
        /\ (criteria.uuid = None \/ criteria.uuid = Some(filesystems[k].uuid))
        /\ (criteria.label = None \/ criteria.label = filesystems[k].label)
        /\ (criteria.device = None
              \/ realpath(criteria.device[1]) \in ListedDevices(shown, filesystems[k].uuid))}}

\* C4: get_any_matching_filesystem returns a filesystem only when exactly one
\* known filesystem meets every supplied criterion, and then that one; with no
\* match or several it raises.
C4_ExactlyOneMatch ==
    lastOp.op = "get_any_matching_filesystem"
        => IF Cardinality(Matching(lastOp.criteria)) = 1
           THEN lastOp.result.kind = "return" => Matching(lastOp.criteria) = {lastOp.result.value}
           ELSE lastOp.result.kind = "BtrfsModuleException"

\* C5: over any sequence of registry calls the discovery pipeline is queried
\* once, whatever the first discovery returned.
C5_DiscoveredOnce == showCalls <= 1

\* C6: after discovery each filesystem's devices are exactly the device lines
\* that followed its own header.
C6_OwnDevicesOnly ==
    \A i \in 1..Len(filesystems) :
        Range(Devices(filesystems[i])) = ListedDevices(shown, filesystems[i].uuid)

\* C7: after discovery of several filesystems with disjoint device listings,
\* get_filesystem_for_device(d) returns the filesystem whose listing held the
\* canonical path of d, and None when no listing held it.
C7_DeviceOwner ==
    (lastOp.op = "get_filesystem_for_device" /\ Len(filesystems) >= 2)
        => LET owners == {i \in 1..Len(filesystems) :
                            realpath(lastOp.device) \in ListedDevices(shown, filesystems[i].uuid)}
           IN  /\ owners = {} => lastOp.result = Return(None)
               /\ \A i \in owners : lastOp.result = Return(Some(filesystems[i].uuid))

\* C8: in every state of every filesystem, mounted or not, subvolume ids are
\* unique and the root subvolume (id 5) is in the tree, without a parent.
C8_RootAlwaysPresent ==
    \A i \in 1..Len(filesystems) :
        LET tree == filesystems[i].subvolumes
        IN  /\ \A j, k \in 1..Len(tree) : tree[j].id = tree[k].id => j = k
            /\ \E j \in 1..Len(tree) : tree[j].id = RootId /\ tree[j].parent = None

\* C9: every mountpoint a subvolume's mountpoints hold carries the subvolume's
\* id and a device that was listed for the owning filesystem.
C9_MountpointsBelong ==
    \A i \in 1..Len(filesystems) : \A j \in 1..Len(filesystems[i].subvolumes) :
        LET fs == filesystems[i]
            held == Mountpoints(fs, fs.subvolumes[j], mountpointsDefault)
        IN  \A k \in 1..Len(held) :
                /\ held[k].subvolume_id = fs.subvolumes[j].id
                /\ held[k].device \in ListedDevices(shown, fs.uuid)

\* C10: refresh() of a filesystem none of whose devices is mounted issues no
\* subvolume and no default-subvolume query, empties the mount table and
\* leaves the subvolume tree and the default subvolume id as they were.
Tree(fs) ==
    [j \in 1..Len(fs.subvolumes) |->
        [id |-> fs.subvolumes[j].id, path |-> fs.subvolumes[j].path, parent |-> fs.subvolumes[j].parent]]

NoLiveMountpoint(uuid, found) ==
    \A k \in 1..Len(found) : found[k].device \notin ListedDevices(shown, uuid)

C10_RefreshUnmountedKeepsTree ==
    [][(lastOp'.op = "refresh" /\ NoLiveMountpoint(lastOp'.fs, lastOp'.found))
        => /\ lastOp'.issued = {"findmnt"}
           /\ FsOf(filesystems', lastOp'.fs).mountpoints = <<>>
           /\ Tree(FsOf(filesystems', lastOp'.fs)) = Tree(FsOf(filesystems, lastOp'.fs))
           /\ FsOf(filesystems', lastOp'.fs).default_subvolid
                = FsOf(filesystems, lastOp'.fs).default_subvolid]_vars

---------------------------------------------------------------------------
(* Resolution of a subvolume to a mountpoint *)

\* subvolume.get_mounted_path() on the j-th subvolume of the working filesystem
GetMountedPath ==
    /\ ~Hung
    /\ \E i \in Working : \E j \in 1..Len(filesystems[i].subvolumes) :
        lastOp' = [op |-> "get_mounted_path", fs |-> filesystems[i].uuid,
                   id |-> filesystems[i].subvolumes[j].id,
                   result |-> Return(get_mounted_path(filesystems[i], filesystems[i].subvolumes[j]))]
    /\ UNCHANGED <<filesystems, devicesDefault, mountpointsDefault, shown, showCalls, handle>>

\* Discovery, later mount changes, and the resolution of subvolumes
NextResolve ==
    \/ handle = None /\ GetAnyMatchingFilesystem
    \/ RefreshMountpoints
    \/ GetMountedPath

SpecResolve == Init /\ [][NextResolve]_vars

\* The ids on the chain id, parent(id), ... as far as the tree holds them, at
\* most n of them
RECURSIVE ChainFrom(_, _, _)
ChainFrom(fs, id, n) ==
    IF n = 0 \/ get_subvolume_by_id(fs, id) = None THEN <<>>
    ELSE LET parent == get_subvolume_by_id(fs, id)[1].parent
         IN  <<id>> \o (IF parent = None THEN <<>> ELSE ChainFrom(fs, parent[1], n - 1))

\* The first mountpoint the mount table records for the closest id of a chain
\* that has any, or None
FirstMountedOn(fs, chain) ==
    LET mounted == {k \in 1..Len(chain) : Len(get_mountpoints_by_subvolume_id(fs, chain[k])) > 0}
    IN  IF mounted = {} THEN None
        ELSE Some(get_mountpoints_by_subvolume_id(
                    fs, chain[CHOOSE k \in mounted : \A m \in mounted : k <= m])[1])

SearchedChain(fs, path) ==
    LET nearest == NearestIn(fs, path)
    IN  IF nearest.path # path THEN ChainFrom(fs, nearest.id, Len(fs.subvolumes))
        ELSE IF nearest.parent = None THEN <<>>
        ELSE ChainFrom(fs, nearest.parent[1], Len(fs.subvolumes))

\* C12: get_mountpath_as_child(p) raises BtrfsModuleException if and only if
\* no subvolume on the chain it searches is mounted; whenever one is, it
\* returns a path, built from an ancestor's mount when p is itself a
\* subvolume's path.
C12_FailsOnlyWhenChainUnmounted ==
    lastOp.op = "get_mountpath_as_child"
        => LET fs == FsOf(filesystems, lastOp.fs)
               through == FirstMountedOn(fs, SearchedChain(fs, lastOp.path))
           IN  IF through = None
               THEN lastOp.result.kind = "BtrfsModuleException"
               ELSE /\ lastOp.result.kind = "return"
                    /\ StartsWith(lastOp.result.value, through[1].path)

---------------------------------------------------------------------------
(* BtrfsInfoProvider: the parser of 'findmnt -t btrfs -nvP' *)

MaxListing == 2

Comma == ","
Equals == "="
Digits == <<"0", "1", "2", "3", "4", "5", "6", "7", "8", "9">>

O_rw == <<"r", "w">>
O_subvolid_256 == <<"s", "u", "b", "v", "o", "l", "i", "d", "=", "2", "5", "6">>
O_subvolid_x == <<"s", "u", "b", "v", "o", "l", "i", "d", "=", "x">>
O_subvolid_bare == <<"s", "u", "b", "v", "o", "l", "i", "d">>
O_subvol_at == <<"s", "u", "b", "v", "o", "l", "=", "/", "@">>
O_subvol_noslash == <<"s", "u", "b", "v", "o", "l", "=", "@">>
O_subvol_bare == <<"s", "u", "b", "v", "o", "l">>
K_subvolid == <<"s", "u", "b", "v", "o", "l", "i", "d">>
K_subvol == <<"s", "u", "b", "v", "o", "l">>

\* ",".join(tokens)
RECURSIVE Join(_)
Join(tokens) ==
    IF tokens = <<>> THEN <<>>
    ELSE IF Len(tokens) = 1 THEN tokens[1]
    ELSE tokens[1] \o <<Comma>> \o Join(Tail(tokens))

Reverse(s) == [i \in 1..Len(s) |-> s[Len(s) + 1 - i]]

\* OPTIONS values: any of "rw", a subvolid option and a subvol option, each
\* present or not, in findmnt's order and in the opposite order
OptionTokens ==
    {a \o b \o c : a \in {<<>>, <<O_rw>>},
                   b \in {<<>>, <<O_subvolid_256>>, <<O_subvolid_x>>, <<O_subvolid_bare>>},
                   c \in {<<>>, <<O_subvol_at>>, <<O_subvol_noslash>>, <<O_subvol_bare>>}}

OptionInputs == {Join(t) : t \in OptionTokens} \cup {Join(Reverse(t)) : t \in OptionTokens}

\* A line of the listing: its KEY="value" fields in order
Field(key, value) == [key |-> key, value |-> value]

FindmntLine(target, source, options) ==
    <<Field("TARGET", target), Field("SOURCE", source),
      Field("FSTYPE", "btrfs"), Field("OPTIONS", options)>>

LineInputs ==
    {FindmntLine(P_root, "/dev/sda1", options) : options \in OptionInputs}
        \cup {<<>>, <<Field("TARGET", P_root), Field("SOURCE", "/dev/sda1"), Field("FSTYPE", "btrfs")>>}

ListingInputs == SeqsUpTo(LineInputs, MaxListing)

\* str.split(sep)
RECURSIVE Split(_, _)
Split(s, sep) ==
    IF \E i \in 1..Len(s) : s[i] = sep
    THEN LET i == CHOOSE k \in 1..Len(s) : s[k] = sep /\ \A j \in 1..(k - 1) : s[j] # sep
         IN  <<SubSeq(s, 1, i - 1)>> \o Split(SubSeq(s, i + 1, Len(s)), sep)
    ELSE <<s>>

\* str.split(sep, maxsplit=1)
SplitOnce(s, sep) ==
    IF \E i \in 1..Len(s) : s[i] = sep
    THEN LET i == CHOOSE k \in 1..Len(s) : s[k] = sep /\ \A j \in 1..(k - 1) : s[j] # sep
         IN  <<SubSeq(s, 1, i - 1), SubSeq(s, i + 1, Len(s))>>
    ELSE <<s>>

\* res[key] = value for a dict of records keyed by field key
PutByKey(d, v) ==
    IF \E i \in 1..Len(d) : d[i].key = v.key
    THEN [i \in 1..Len(d) |-> IF d[i].key = v.key THEN v ELSE d[i]]
    ELSE Append(d, v)

\* BtrfsInfoProvider.__extract_mount_options
RECURSIVE StoreOptions(_, _)
StoreOptions(res, options) ==
    IF options = <<>> THEN res
    ELSE LET param == SplitOnce(Head(options), Equals)
         IN  StoreOptions(PutByKey(res, [key |-> param[1],
                                         value |-> IF Len(param) = 2 THEN Some(param[2]) ELSE None]),
                          Tail(options))

extract_mount_options(mount_options) == StoreOptions(<<>>, Split(mount_options, Comma))

\* int(s) for a string of decimal digits; any other string of the inputs
\* raises ValueError
IsDigit(c) == \E n \in 1..10 : Digits[n] = c

DigitValue(c) == (CHOOSE n \in 1..10 : Digits[n] = c) - 1

RECURSIVE DecimalValue(_)
DecimalValue(s) ==
    IF s = <<>> THEN 0 ELSE 10 * DecimalValue(SubSeq(s, 1, Len(s) - 1)) + DigitValue(s[Len(s)])

int(s) ==
    IF s # <<>> /\ \A i \in 1..Len(s) : IsDigit(s[i]) THEN Return(DecimalValue(s))
    ELSE Raise("ValueError")

\* BtrfsModuleException whose message carries the offending line
FailedLine(line) == [kind |-> "BtrfsModuleException", value |-> line]

\* The pattern of __parse_mountpoint_pairs on a line of KEY="value" fields
PatternMatches(line) ==
    /\ Len(line) = 4
    /\ line[1].key = "TARGET" /\ line[2].key = "SOURCE"
    /\ line[3].key = "FSTYPE" /\ line[4].key = "OPTIONS"

DictHas(d, key) == \E i \in 1..Len(d) : d[i].key = key

DictGet(d, key) == d[CHOOSE i \in 1..Len(d) : d[i].key = key].value

\* BtrfsInfoProvider.__parse_mountpoint_pairs: a missing key (KeyError), a key
\* without value (ValueError) and a subvolid that is no integer (ValueError)
\* all end in BtrfsModuleException
parse_mountpoint_pairs(line) ==
    IF ~PatternMatches(line) THEN FailedLine(line)
    ELSE LET mount_options == extract_mount_options(line[4].value)
         IN  IF ~DictHas(mount_options, K_subvolid) \/ ~DictHas(mount_options, K_subvol)
             THEN FailedLine(line)
             ELSE LET subvolid == DictGet(mount_options, K_subvolid)
                      subvol == DictGet(mount_options, K_subvol)
                  IN  IF subvol = None \/ subvolid = None THEN FailedLine(line)
                      ELSE IF int(subvolid[1]).kind # "return" THEN FailedLine(line)
                      ELSE Return(Mountpoint(line[1].value, line[2].value,
                                             int(subvolid[1]).value, subvol[1]))

\* BtrfsInfoProvider.__find_mountpoints: the loop over the lines
RECURSIVE parse_lines(_, _)
parse_lines(lines, mountpoints) ==
    IF lines = <<>> THEN Return(mountpoints)
    ELSE LET mountpoint == parse_mountpoint_pairs(Head(lines))
         IN  IF mountpoint.kind # "return" THEN mountpoint
             ELSE parse_lines(Tail(lines), Append(mountpoints, mountpoint.value))

\* find_mountpoints that leaves out the lines it cannot parse
find_mountpoints_skipping(rc, lines) ==
    LET parses(line) == parse_mountpoint_pairs(line).kind = "return"
    IN  IF rc = 0 THEN parse_lines(SelectSeq(lines, parses), <<>>)
        ELSE Raise("BtrfsModuleException")

\* BtrfsInfoProvider.__find_mountpoints
find_mountpoints(rc, lines) ==
    IF rc = 0 THEN parse_lines(lines, <<>>) ELSE Raise("BtrfsModuleException")

\* Exit codes of findmnt
ExitCodes == {0, 1}

\* The provider before the listing is read
InitListing ==
    /\ filesystems = <<>>
    /\ devicesDefault = <<>>
    /\ mountpointsDefault = <<>>
    /\ shown = <<>>
    /\ showCalls = 0
    /\ handle = None
    /\ \E rc \in ExitCodes, listing \in ListingInputs :
        lastOp = [op |-> "findmnt", rc |-> rc, listing |-> listing]

FindMountpoints ==
    /\ lastOp.op = "findmnt"
    /\ lastOp' = [op |-> "find_mountpoints", rc |-> lastOp.rc, listing |-> lastOp.listing,
                  result |-> find_mountpoints(lastOp.rc, lastOp.listing)]
    /\ UNCHANGED <<filesystems, devicesDefault, mountpointsDefault, shown, showCalls, handle>>

NextListing == FindMountpoints

SpecListing == InitListing /\ [][NextListing]_vars

\* The tokens of an OPTIONS value that give key a value
ValuesOf(options, key) ==
    {Drop(token, Len(key) + 1) :
        token \in {t \in Range(Split(options, Comma)) : StartsWith(t, key \o <<Equals>>)}}

IsInteger(s) == s # <<>> /\ \A i \in 1..Len(s) : IsDigit(s[i])

\* The line has the four quoted fields, a subvolid with an integer value and a
\* subvol with a value
WellFormedLine(line) ==
    /\ PatternMatches(line)
    /\ \E v \in ValuesOf(line[4].value, K_subvolid) : IsInteger(v)
    /\ ValuesOf(line[4].value, K_subvol) # {}

ExampleLine == FindmntLine(P_root, "/dev/sda1", Join(<<O_rw, O_subvolid_256, O_subvol_at>>))

\* C13: the parser of the mount listing yields a mountpoint for a line if and
\* only if the line has the four quoted fields and its options carry a subvolid
\* with an integer value and a subvol with a value; a line that lacks either
\* makes the whole listing fail with an error carrying that line, never a
\* partial list; the line TARGET="/" SOURCE="/dev/sda1" FSTYPE="btrfs"
\* OPTIONS="rw,subvolid=256,subvol=/@" yields ("/", "/dev/sda1", 256, "/@").
C13_ListingParsedOrRejected ==
    /\ parse_mountpoint_pairs(ExampleLine)
         = Return(Mountpoint(P_root, "/dev/sda1", 256, <<"/", "@">>))
    /\ (lastOp.op = "find_mountpoints" /\ lastOp.rc = 0)
        => LET listing == lastOp.listing
               bad == {i \in 1..Len(listing) : ~WellFormedLine(listing[i])}
           IN  IF bad = {}
               THEN /\ lastOp.result.kind = "return"
                    /\ Len(lastOp.result.value) = Len(listing)
                    /\ \A i \in 1..Len(listing) :
                        /\ lastOp.result.value[i].path = listing[i][1].value
                        /\ lastOp.result.value[i].device = listing[i][2].value
                        /\ \E v \in ValuesOf(listing[i][4].value, K_subvolid) :
                              IsInteger(v) /\ lastOp.result.value[i].subvolume_id = DecimalValue(v)
                        /\ lastOp.result.value[i].subvolume_path
                              \in ValuesOf(listing[i][4].value, K_subvol)
               ELSE lastOp.result
                      = FailedLine(listing[CHOOSE i \in bad : \A j \in bad : i <= j])

\* A listing whose first line parses and whose second line lacks a sub-key was
\* rejected as a whole
C13_RejectedAfterGoodLine ==
    /\ lastOp.op = "find_mountpoints" /\ lastOp.rc = 0
    /\ Len(lastOp.listing) = 2
    /\ lastOp.listing[1] = ExampleLine
    /\ PatternMatches(lastOp.listing[2]) /\ ~WellFormedLine(lastOp.listing[2])
    /\ lastOp.result = FailedLine(lastOp.listing[2])

\* A normalized internal path: one leading separator, no trailing separator
\* (but for the root path), no doubled separator, no leading <FS_TREE>
IsNormalized(path) ==
    /\ path # <<>> /\ path[1] = Sep
    /\ Len(path) > 1 => path[Len(path)] # Sep
    /\ \A i \in 1..(Len(path) - 1) : ~(path[i] = Sep /\ path[i + 1] = Sep)
    /\ ~StartsWith(path, FS_TREE)

\* C14: every mountpoint the parser of the mount listing produces has a
\* normalized subvolume path, whatever the raw subvol option value was, equal
\* to what normalize_subvolume_path makes of that value.
C14_ParsedSubvolumePathNormalized ==
    (lastOp.op = "find_mountpoints" /\ lastOp.result.kind = "return")
        => \A i \in 1..Len(lastOp.result.value) :
            /\ IsNormalized(lastOp.result.value[i].subvolume_path)
            /\ \E raw \in ValuesOf(lastOp.listing[i][4].value, K_subvol) :
                lastOp.result.value[i].subvolume_path = normalize_subvolume_path(raw)

---------------------------------------------------------------------------
(* normalize_subvolume_path as a function of any string *)

MaxPieces == 4

\* Raw paths: up to MaxPieces pieces, each a separator, a name or the
\* <FS_TREE> marker, and the path "<FS_TREE>/foo//bar/"
RECURSIVE Concat(_)
Concat(pieces) == IF pieces = <<>> THEN <<>> ELSE Head(pieces) \o Concat(Tail(pieces))

N_foo == <<"f", "o", "o">>
N_bar == <<"b", "a", "r">>

PathPieces == {<<Sep>>, <<"a">>, FS_TREE}

RawPathInputs ==
    {Concat(pieces) : pieces \in SeqsUpTo(PathPieces, MaxPieces)}
        \cup {Concat(<<FS_TREE, <<Sep>>, N_foo, <<Sep>>, <<Sep>>, N_bar, <<Sep>>>>)}

InitNormalize ==
    /\ filesystems = <<>>
    /\ devicesDefault = <<>>
    /\ mountpointsDefault = <<>>
    /\ shown = <<>>
    /\ showCalls = 0
    /\ handle = None
    /\ \E path \in RawPathInputs : lastOp = [op |-> "path", path |-> path]

Normalize ==
    /\ lastOp.op = "path"
    /\ lastOp' = [op |-> "normalize_subvolume_path", path |-> lastOp.path,
                  result |-> Return(normalize_subvolume_path(lastOp.path))]
    /\ UNCHANGED <<filesystems, devicesDefault, mountpointsDefault, shown, showCalls, handle>>

NextNormalize == Normalize

SpecNormalize == InitNormalize /\ [][NextNormalize]_vars

C16_AddMountpointTouchesOneSubvolume ==
    [][lastOp'.op = "add_mountpoint"
        => \A i \in 1..Len(filesystems) :
            /\ filesystems'[i].mountpoints = filesystems[i].mountpoints
            /\ \A j \in 1..Len(filesystems[i].subvolumes) :
                (filesystems[i].uuid # lastOp'.fs \/ filesystems[i].subvolumes[j].id # lastOp'.id)
                    => Mountpoints(filesystems'[i], filesystems'[i].subvolumes[j], mountpointsDefault')
                         = Mountpoints(filesystems[i], filesystems[i].subvolumes[j], mountpointsDefault)]_vars

---------------------------------------------------------------------------
(* get_child_relative_path as a function of two normalized paths *)

MaxDepth == 2

N_data == <<"d", "a", "t", "a">>
N_database == <<"d", "a", "t", "a", "b", "a", "s", "e">>
N_x == <<"x">>

SegmentNames == {N_data, N_database, N_x}

\* "/" + "/".join(names), and "/" for no name
RECURSIVE PathOf(_)
PathOf(names) ==
    IF names = <<>> THEN P_root
    ELSE IF Len(names) = 1 THEN <<Sep>> \o names[1]
    ELSE <<Sep>> \o names[1] \o PathOf(Tail(names))

NormalizedPathInputs == {PathOf(names) : names \in SeqsUpTo(SegmentNames, MaxDepth)}

InitRelative ==
    /\ filesystems = <<>>
    /\ devicesDefault = <<>>
    /\ mountpointsDefault = <<>>
    /\ shown = <<>>
    /\ showCalls = 0
    /\ handle = None
    /\ \E parent \in NormalizedPathInputs, child \in NormalizedPathInputs :
        lastOp = [op |-> "paths", parent |-> parent, child |-> child]

\* subvolume.get_child_relative_path(child) on a subvolume at path parent
GetChildRelativePath ==
    /\ lastOp.op = "paths"
    /\ lastOp' = [op |-> "get_child_relative_path", parent |-> lastOp.parent, child |-> lastOp.child,
                  result |-> get_child_relative_path(
                                BtrfsSubvolume(256, lastOp.parent, Some(RootId)), lastOp.child)]
    /\ UNCHANGED <<filesystems, devicesDefault, mountpointsDefault, shown, showCalls, handle>>

NextRelative == GetChildRelativePath

SpecRelative == InitRelative /\ [][NextRelative]_vars

=============================================================================
